---------------------------- MODULE Spec2Model ----------------------------
(***************************************************************************)
(* Model of the lei crate (src/src/lib.rs, src/src/digits.rs): strict and  *)
(* loose parsing, building from a payload or from parts, boolean           *)
(* validation, the letter-to-decimal digit expansion and the accessors of  *)
(* the validated LEI value.                                                *)
(*                                                                         *)
(* A string (&str, String) and a byte slice (&[u8], [u8; N]) are both      *)
(* modelled as a sequence of bytes 0..255; a &str is always valid UTF-8.   *)
(* Option<T> is a sequence of length 0 (None) or 1 (Some).                 *)
(* A call returns a record: kind "Ok" (with the value), kind "Err" (with   *)
(* the LEIError variant and its fields), kind "Bool", or kind "Panic" for  *)
(* the panic!() paths.                                                     *)
(***************************************************************************)
EXTENDS Integers, Sequences, FiniteSets, TLC

(***************************************************************************)
(* Program constants.                                                      *)
(***************************************************************************)
LEI_LEN == 20
PAYLOAD_LEN == 18
LOU_ID_LEN == 4
ENTITY_ID_LEN == 14
CHECK_DIGITS_LEN == 2
MODULUS == 97
RADIX == 10

(***************************************************************************)
(* u8 classification helpers of the standard library, as used by the       *)
(* field validators and the digit expansion.                               *)
(***************************************************************************)
IsAsciiDigit(b) == b >= 48 /\ b <= 57

IsAsciiUppercase(b) == b >= 65 /\ b <= 90

IsAsciiAlphabetic(b) == (b >= 65 /\ b <= 90) \/ (b >= 97 /\ b <= 122)

(* The test of lib.rs:72 and lib.rs:87. *)
IsUpperAlnum(b) == IsAsciiDigit(b) \/ (IsAsciiAlphabetic(b) /\ IsAsciiUppercase(b))

Ok(v) == [kind |-> "Ok", lei |-> v]

Unit == [kind |-> "Ok"]

Panic(m) == [kind |-> "Panic", msg |-> m]

ErrLen(e, n) == [kind |-> "Err", err |-> e, was |-> n]

ErrBytes(e, bs) == [kind |-> "Err", err |-> e, was |-> bs]

ErrIncorrect(bs, ex) ==
    [kind |-> "Err", err |-> "IncorrectCheckDigits", was |-> bs, expected |-> ex]

(* copy_from_slice into a fresh fixed-size array. *)
CopyFromSlice(src) == [i \in 1..Len(src) |-> src[i]]

(***************************************************************************)
(* digits.rs: DigitsIterator.                                              *)
(***************************************************************************)
DigitsNew(bytes) == [bytes |-> bytes, scratch |-> <<>>]

(* As DigitsNext, a letter's units digit returned first and its tens digit *)
(* kept in scratch.                                                        *)
DigitsNext_UnitsFirst(it) ==
    IF it.scratch # <<>>
    THEN [item |-> <<it.scratch[1]>>,
          it |-> [bytes |-> it.bytes, scratch |-> <<>>],
          panic |-> FALSE]
    ELSE IF it.bytes = <<>>
    THEN [item |-> <<>>, it |-> it, panic |-> FALSE]
    ELSE LET v == Head(it.bytes)
             rest == Tail(it.bytes)
         IN  IF IsAsciiDigit(v)
             THEN [item |-> <<(v - 48) + 48>>,
                   it |-> [bytes |-> rest, scratch |-> <<>>],
                   panic |-> FALSE]
             ELSE IF IsAsciiUppercase(v)
             THEN LET d == v - 65 + 10
                  IN  [item |-> <<(d % 10) + 48>>,
                       it |-> [bytes |-> rest, scratch |-> <<(d \div 10) + 48>>],
                       panic |-> FALSE]
             ELSE [item |-> <<>>,
                   it |-> [bytes |-> rest, scratch |-> <<>>],
                   panic |-> TRUE]

(* One call of next(): the item returned (None = <<>>), the iterator after *)
(* the call, and whether the call panicked.                                *)
DigitsNext(it) ==
    IF it.scratch # <<>>
    THEN [item |-> <<it.scratch[1]>>,
          it |-> [bytes |-> it.bytes, scratch |-> <<>>],
          panic |-> FALSE]
    ELSE IF it.bytes = <<>>
    THEN [item |-> <<>>, it |-> it, panic |-> FALSE]
    ELSE LET v == Head(it.bytes)
             rest == Tail(it.bytes)
         IN  IF IsAsciiDigit(v)
             THEN [item |-> <<(v - 48) + 48>>,
                   it |-> [bytes |-> rest, scratch |-> <<>>],
                   panic |-> FALSE]
             ELSE IF IsAsciiUppercase(v)
             THEN LET d == v - 65 + 10
                  IN  [item |-> <<(d \div 10) + 48>>,
                       it |-> [bytes |-> rest, scratch |-> <<(d % 10) + 48>>],
                       panic |-> FALSE]
             ELSE [item |-> <<>>,
                   it |-> [bytes |-> rest, scratch |-> <<>>],
                   panic |-> TRUE]

(***************************************************************************)
(* The ISO/IEC 7064 MOD 97-10 engine (crate iso_iec_7064) called at        *)
(* lib.rs:53.  It consumes the iterator to its end; the running value is   *)
(* reduced modulo 97 at every symbol.  The check value c of a digit string *)
(* N is the one that makes N * 100 + c congruent to 1 modulo 97, that is   *)
(* (98 - (N * 100) % 97) % 97; the vectors of lib.rs:338-399 (02..20, 00   *)
(* and 01) fix this form.  None (<<>>) for an empty stream or a symbol     *)
(* that is no decimal digit.                                               *)
(***************************************************************************)
RECURSIVE ChecksumFold(_, _, _, _)
ChecksumFold(it, acc, count, bad) ==
    LET r == DigitsNext(it)
    IN  IF r.panic THEN [panic |-> TRUE, acc |-> acc, count |-> count, bad |-> bad]
        ELSE IF r.item = <<>>
        THEN [panic |-> FALSE, acc |-> acc, count |-> count, bad |-> bad]
        ELSE IF IsAsciiDigit(r.item[1])
        THEN ChecksumFold(r.it, (acc * RADIX + (r.item[1] - 48)) % MODULUS,
                          count + 1, bad)
        ELSE ChecksumFold(r.it, acc, count + 1, TRUE)

ChecksumAsciiBytesIter(it) ==
    LET f == ChecksumFold(it, 0, 0, FALSE)
    IN  IF f.panic THEN [panic |-> TRUE, sum |-> <<>>]
        ELSE IF f.count = 0 \/ f.bad THEN [panic |-> FALSE, sum |-> <<>>]
        ELSE [panic |-> FALSE,
              sum |-> <<((MODULUS + 1) - ((f.acc * RADIX * RADIX) % MODULUS)) % MODULUS>>]

(***************************************************************************)
(* lib.rs: compute_check_digits and the three field validators.            *)
(***************************************************************************)
(* As compute_check_digits, the two digits written in the wrong order. *)
compute_check_digits_Swapped(s) ==
    LET c == ChecksumAsciiBytesIter(DigitsNew(s))
    IN  IF c.panic
        THEN Panic("DigitIterator should only be called on pure ASCII uppercase alphanumeric strings")
        ELSE IF c.sum = <<>>
        THEN Panic("MOD_97_10::checksum() failed to produce a checksum!")
        ELSE LET sum == c.sum[1]
                 d1 == (48 + ((sum \div 10) % 256)) % 256
                 d0 == (48 + ((sum % 10) % 256)) % 256
             IN  [kind |-> "Ok", cd |-> <<d0, d1>>]

compute_check_digits(s) ==
    LET c == ChecksumAsciiBytesIter(DigitsNew(s))
    IN  IF c.panic
        THEN Panic("DigitIterator should only be called on pure ASCII uppercase alphanumeric strings")
        ELSE IF c.sum = <<>>
        THEN Panic("MOD_97_10::checksum() failed to produce a checksum!")
        ELSE LET sum == c.sum[1]
                 d1 == (48 + ((sum \div 10) % 256)) % 256
                 d0 == (48 + ((sum % 10) % 256)) % 256
             IN  [kind |-> "Ok", cd |-> <<d1, d0>>]

validate_lou_id_format(li) ==
    IF Len(li) # LOU_ID_LEN THEN Panic("Expected 4 bytes for LOU ID")
    ELSE IF \E i \in 1..Len(li) : ~IsUpperAlnum(li[i])
    THEN ErrBytes("InvalidLouId", CopyFromSlice(li))
    ELSE Unit

(* As validate_entity_id_format, without the is_ascii_uppercase test. *)
validate_entity_id_format_AnyCase(ei) ==
    IF Len(ei) # ENTITY_ID_LEN THEN Panic("Expected 14 bytes for Entity ID")
    ELSE IF \E i \in 1..Len(ei) : ~(IsAsciiDigit(ei[i]) \/ IsAsciiAlphabetic(ei[i]))
    THEN ErrBytes("InvalidEntityId", CopyFromSlice(ei))
    ELSE Unit

validate_entity_id_format(ei) ==
    IF Len(ei) # ENTITY_ID_LEN THEN Panic("Expected 14 bytes for Entity ID")
    ELSE IF \E i \in 1..Len(ei) : ~IsUpperAlnum(ei[i])
    THEN ErrBytes("InvalidEntityId", CopyFromSlice(ei))
    ELSE Unit

validate_check_digits_format(cd) ==
    IF Len(cd) # CHECK_DIGITS_LEN THEN Panic("Expected 2 bytes for Check Digits")
    ELSE IF \E i \in 1..Len(cd) : ~IsAsciiDigit(cd[i])
    THEN ErrBytes("InvalidCheckDigits", CopyFromSlice(cd))
    ELSE Unit

(***************************************************************************)
(* lib.rs: the five public entry points.                                   *)
(***************************************************************************)
(* As parse, without the comparison with the computed check digits. *)
parse_NoChecksum(value) ==
    IF Len(value) # LEI_LEN THEN ErrLen("InvalidLength", Len(value))
    ELSE
    LET b == value
        r1 == validate_lou_id_format(SubSeq(b, 1, 4))
        r2 == validate_entity_id_format(SubSeq(b, 5, 18))
        r3 == validate_check_digits_format(SubSeq(b, 19, 20))
    IN  IF r1.kind # "Ok" THEN r1
        ELSE IF r2.kind # "Ok" THEN r2
        ELSE IF r3.kind # "Ok" THEN r3
        ELSE Ok(CopyFromSlice(b))

(* As parse, the Entity ID validated before the LOU ID. *)
parse_EntityFirst(value) ==
    IF Len(value) # LEI_LEN THEN ErrLen("InvalidLength", Len(value))
    ELSE
    LET b == value
        r1 == validate_lou_id_format(SubSeq(b, 1, 4))
        r2 == validate_entity_id_format(SubSeq(b, 5, 18))
        r3 == validate_check_digits_format(SubSeq(b, 19, 20))
    IN  IF r2.kind # "Ok" THEN r2
        ELSE IF r1.kind # "Ok" THEN r1
        ELSE IF r3.kind # "Ok" THEN r3
        ELSE
    LET computed == compute_check_digits(SubSeq(b, 1, 18))
    IN  IF computed.kind # "Ok" THEN computed
        ELSE IF SubSeq(b, 19, 20) # computed.cd
        THEN ErrIncorrect(CopyFromSlice(SubSeq(b, 19, 20)), computed.cd)
        ELSE Ok(CopyFromSlice(b))

parse(value) ==
    IF Len(value) # LEI_LEN THEN ErrLen("InvalidLength", Len(value))
    ELSE
    LET b == value
        lou_id == SubSeq(b, 1, 4)
        r1 == validate_lou_id_format(lou_id)
    IN  IF r1.kind # "Ok" THEN r1 ELSE
    LET entity_id == SubSeq(b, 5, 18)
        r2 == validate_entity_id_format(entity_id)
    IN  IF r2.kind # "Ok" THEN r2 ELSE
    LET check_digits == SubSeq(b, 19, 20)
        r3 == validate_check_digits_format(check_digits)
    IN  IF r3.kind # "Ok" THEN r3 ELSE
    LET payload == SubSeq(b, 1, 18)
        computed == compute_check_digits(payload)
    IN  IF computed.kind # "Ok" THEN computed
        ELSE IF check_digits # computed.cd
        THEN ErrIncorrect(CopyFromSlice(check_digits), computed.cd)
        ELSE Ok(CopyFromSlice(b))

(* str::to_ascii_uppercase: only a..z change. *)
ToAsciiUppercase(s) ==
    [i \in 1..Len(s) |-> IF s[i] >= 97 /\ s[i] <= 122 THEN s[i] - 32 ELSE s[i]]

(* Length in bytes of the White_Space character whose UTF-8 encoding       *)
(* starts at index i of s, or 0 when there is none (char::is_whitespace).  *)
WhitespaceAt(s, i) ==
    LET n == Len(s)
        b0 == s[i]
        b1 == IF i + 1 <= n THEN s[i + 1] ELSE 0
        b2 == IF i + 2 <= n THEN s[i + 2] ELSE 0
    IN  IF i > n THEN 0
        ELSE IF b0 = 32 \/ (b0 >= 9 /\ b0 <= 13) THEN 1
        ELSE IF b0 = 194 /\ (b1 = 133 \/ b1 = 160) THEN 2
        ELSE IF b0 = 225 /\ b1 = 154 /\ b2 = 128 THEN 3
        ELSE IF b0 = 226 /\ b1 = 128
                /\ ((b2 >= 128 /\ b2 <= 138) \/ b2 = 168 \/ b2 = 169 \/ b2 = 175) THEN 3
        ELSE IF b0 = 226 /\ b1 = 129 /\ b2 = 159 THEN 3
        ELSE IF b0 = 227 /\ b1 = 128 /\ b2 = 128 THEN 3
        ELSE 0

(* Length of the White_Space character that ends at index j of s, or 0.    *)
WhitespaceBefore(s, j) ==
    IF j >= 1 /\ WhitespaceAt(s, j) = 1 THEN 1
    ELSE IF j >= 2 /\ WhitespaceAt(s, j - 1) = 2 THEN 2
    ELSE IF j >= 3 /\ WhitespaceAt(s, j - 2) = 3 THEN 3
    ELSE 0

RECURSIVE TrimStart(_)
TrimStart(s) ==
    IF s = <<>> \/ WhitespaceAt(s, 1) = 0 THEN s
    ELSE TrimStart(SubSeq(s, WhitespaceAt(s, 1) + 1, Len(s)))

RECURSIVE TrimEnd(_)
TrimEnd(s) ==
    IF s = <<>> \/ WhitespaceBefore(s, Len(s)) = 0 THEN s
    ELSE TrimEnd(SubSeq(s, 1, Len(s) - WhitespaceBefore(s, Len(s))))

RECURSIVE TrimAsciiStart(_)
TrimAsciiStart(s) ==
    IF s = <<>> \/ WhitespaceAt(s, 1) # 1 THEN s
    ELSE TrimAsciiStart(Tail(s))

RECURSIVE TrimAsciiEnd(_)
TrimAsciiEnd(s) ==
    IF s = <<>> \/ WhitespaceAt(s, Len(s)) # 1 THEN s
    ELSE TrimAsciiEnd(SubSeq(s, 1, Len(s) - 1))

(* As Trim, removing ASCII whitespace only. *)
Trim_AsciiOnly(s) == TrimAsciiEnd(TrimAsciiStart(s))

(* str::trim. *)
Trim(s) == TrimEnd(TrimStart(s))

parse_loose(value) ==
    LET uc == ToAsciiUppercase(value)
        temp == Trim(uc)
    IN  parse(temp)


(* As build_from_payload, the check digits computed over the Entity ID only. *)
build_from_payload_ChecksumOverEntity(payload) ==
    IF Len(payload) # PAYLOAD_LEN THEN ErrLen("InvalidPayloadLength", Len(payload))
    ELSE
    LET b == SubSeq(payload, 1, 18)
        r1 == validate_lou_id_format(SubSeq(b, 1, 4))
        r2 == validate_entity_id_format(SubSeq(b, 5, 18))
    IN  IF r1.kind # "Ok" THEN r1
        ELSE IF r2.kind # "Ok" THEN r2 ELSE
    LET temp == compute_check_digits(SubSeq(b, 5, 18))
    IN  IF temp.kind # "Ok" THEN temp
        ELSE Ok([i \in 1..LEI_LEN |-> IF i <= 18 THEN b[i] ELSE temp.cd[i - 18]])

build_from_payload(payload) ==
    IF Len(payload) # PAYLOAD_LEN THEN ErrLen("InvalidPayloadLength", Len(payload))
    ELSE
    LET b == SubSeq(payload, 1, 18)
        lou_id == SubSeq(b, 1, 4)
        r1 == validate_lou_id_format(lou_id)
    IN  IF r1.kind # "Ok" THEN r1 ELSE
    LET entity_id == SubSeq(b, 5, 18)
        r2 == validate_entity_id_format(entity_id)
    IN  IF r2.kind # "Ok" THEN r2 ELSE
    LET temp == compute_check_digits(b)
    IN  IF temp.kind # "Ok" THEN temp
        ELSE Ok([i \in 1..LEI_LEN |-> IF i <= 18 THEN b[i] ELSE temp.cd[i - 18]])

(* As build_from_parts, the check digits computed over the Entity ID only. *)
build_from_parts_ChecksumOverEntity(lou_id_in, entity_id_in) ==
    IF Len(lou_id_in) # LOU_ID_LEN THEN ErrLen("InvalidLouIdLength", Len(lou_id_in))
    ELSE
    LET r1 == validate_lou_id_format(SubSeq(lou_id_in, 1, 4))
    IN  IF r1.kind # "Ok" THEN r1
        ELSE IF Len(entity_id_in) # ENTITY_ID_LEN
        THEN ErrLen("InvalidEntityIdLength", Len(entity_id_in))
        ELSE
    LET r2 == validate_entity_id_format(SubSeq(entity_id_in, 1, 14))
    IN  IF r2.kind # "Ok" THEN r2 ELSE
    LET bb18 == SubSeq(lou_id_in, 1, 4) \o SubSeq(entity_id_in, 1, 14)
        temp == compute_check_digits(SubSeq(entity_id_in, 1, 14))
    IN  IF temp.kind # "Ok" THEN temp
        ELSE Ok([i \in 1..LEI_LEN |-> IF i <= 18 THEN bb18[i] ELSE temp.cd[i - 18]])

(* As build_from_parts, both lengths checked before either format. *)
build_from_parts_LengthsFirst(lou_id_in, entity_id_in) ==
    IF Len(lou_id_in) # LOU_ID_LEN THEN ErrLen("InvalidLouIdLength", Len(lou_id_in))
    ELSE IF Len(entity_id_in) # ENTITY_ID_LEN
    THEN ErrLen("InvalidEntityIdLength", Len(entity_id_in))
    ELSE
    LET r1 == validate_lou_id_format(SubSeq(lou_id_in, 1, 4))
        r2 == validate_entity_id_format(SubSeq(entity_id_in, 1, 14))
    IN  IF r1.kind # "Ok" THEN r1
        ELSE IF r2.kind # "Ok" THEN r2 ELSE
    LET bb18 == SubSeq(lou_id_in, 1, 4) \o SubSeq(entity_id_in, 1, 14)
        temp == compute_check_digits(bb18)
    IN  IF temp.kind # "Ok" THEN temp
        ELSE Ok([i \in 1..LEI_LEN |-> IF i <= 18 THEN bb18[i] ELSE temp.cd[i - 18]])

build_from_parts(lou_id_in, entity_id_in) ==
    IF Len(lou_id_in) # LOU_ID_LEN THEN ErrLen("InvalidLouIdLength", Len(lou_id_in))
    ELSE
    LET lou_id == SubSeq(lou_id_in, 1, 4)
        r1 == validate_lou_id_format(lou_id)
    IN  IF r1.kind # "Ok" THEN r1
        ELSE IF Len(entity_id_in) # ENTITY_ID_LEN
        THEN ErrLen("InvalidEntityIdLength", Len(entity_id_in))
        ELSE
    LET entity_id == SubSeq(entity_id_in, 1, 14)
        r2 == validate_entity_id_format(entity_id)
    IN  IF r2.kind # "Ok" THEN r2 ELSE
    LET bb18 == [i \in 1..18 |-> IF i <= 4 THEN lou_id[i] ELSE entity_id[i - 4]]
        temp == compute_check_digits(bb18)
    IN  IF temp.kind # "Ok" THEN temp
        ELSE Ok([i \in 1..LEI_LEN |-> IF i <= 18 THEN bb18[i] ELSE temp.cd[i - 18]])

Bool(v) == [kind |-> "Bool", val |-> v]

(* As validate, comparing only the first check digit. *)
validate_FirstDigitOnly(value) ==
    IF Len(value) # LEI_LEN THEN Bool(FALSE)
    ELSE
    LET b == value
        r1 == validate_lou_id_format(SubSeq(b, 1, 4))
        r2 == validate_entity_id_format(SubSeq(b, 5, 18))
        r3 == validate_check_digits_format(SubSeq(b, 19, 20))
    IN  IF r1.kind = "Panic" THEN r1
        ELSE IF r1.kind = "Err" THEN Bool(FALSE)
        ELSE IF r2.kind = "Panic" THEN r2
        ELSE IF r2.kind = "Err" THEN Bool(FALSE)
        ELSE IF r3.kind = "Panic" THEN r3
        ELSE IF r3.kind = "Err" THEN Bool(FALSE) ELSE
    LET computed == compute_check_digits(SubSeq(b, 1, 18))
    IN  IF computed.kind # "Ok" THEN computed
        ELSE IF b[19] # computed.cd[1] THEN Bool(FALSE)
        ELSE Bool(TRUE)

validate(value) ==
    IF Len(value) # LEI_LEN THEN Bool(FALSE)
    ELSE
    LET b == value
        lou_id == SubSeq(b, 1, 4)
        r1 == validate_lou_id_format(lou_id)
    IN  IF r1.kind = "Panic" THEN r1
        ELSE IF r1.kind = "Err" THEN Bool(FALSE) ELSE
    LET entity_id == SubSeq(b, 5, 18)
        r2 == validate_entity_id_format(entity_id)
    IN  IF r2.kind = "Panic" THEN r2
        ELSE IF r2.kind = "Err" THEN Bool(FALSE) ELSE
    LET check_digits == SubSeq(b, 19, 20)
        r3 == validate_check_digits_format(check_digits)
    IN  IF r3.kind = "Panic" THEN r3
        ELSE IF r3.kind = "Err" THEN Bool(FALSE) ELSE
    LET payload == SubSeq(b, 1, 18)
        computed == compute_check_digits(payload)
    IN  IF computed.kind # "Ok" THEN computed
        ELSE IF check_digits[1] # computed.cd[1] THEN Bool(FALSE)
        ELSE IF check_digits[2] # computed.cd[2] THEN Bool(FALSE)
        ELSE Bool(TRUE)

(***************************************************************************)
(* lib.rs: the LEI value ([u8; 20]) and its read-only views.               *)
(***************************************************************************)
as_bytes(x) == SubSeq(x, 1, Len(x))

(* As to_string, writing the Debug form "LEI(...)" of lib.rs:292. *)
to_string_Debug(x) == <<76, 69, 73, 40>> \o as_bytes(x) \o <<41>>

(* Display: the bytes of the value written out as a string. *)
to_string(x) == [i \in 1..Len(as_bytes(x)) |-> as_bytes(x)[i]]

lou_id(x) == SubSeq(x, 1, 4)

(* As entity_id, one byte short. *)
entity_id_OneShort(x) == SubSeq(x, 5, 17)

entity_id(x) == SubSeq(x, 5, 18)

payload(x) == SubSeq(x, 1, 18)

check_digits(x) == SubSeq(x, 19, 20)


(***************************************************************************)
(* Inputs.  Every input is a valid UTF-8 string, written as its bytes.     *)
(***************************************************************************)
NumBases == 2
MaxPad == 1
MaxExtra == 1

(* Known-valid LEIs: lib.rs:348, examples/parse.rs:2, lib.rs:398, 350, 352. *)
Corpus ==
    <<
       (* 635400B4JJBON4TCHF02 *)
       <<54, 51, 53, 52, 48, 48, 66, 52, 74, 74, 66, 79, 78, 52, 84, 67, 72, 70, 48, 50>>,
       (* YZ83GD8L7GG84979J516 *)
       <<89, 90, 56, 51, 71, 68, 56, 76, 55, 71, 71, 56, 52, 57, 55, 57, 74, 53, 49, 54>>,
       (* 315700WH3YMKHCVYW201 *)
       <<51, 49, 53, 55, 48, 48, 87, 72, 51, 89, 77, 75, 72, 67, 86, 89, 87, 50, 48, 49>>,
       (* 5493002F3N6V3Z14SP04 *)
       <<53, 52, 57, 51, 48, 48, 50, 70, 51, 78, 54, 86, 51, 90, 49, 52, 83, 80, 48, 52>>,
       (* JJKC32MCHWDI71265Z06 *)
       <<74, 74, 75, 67, 51, 50, 77, 67, 72, 87, 68, 73, 55, 49, 50, 54, 53, 90, 48, 54>>
    >>

Bases == {Corpus[k] : k \in 1..(IF NumBases < Len(Corpus) THEN NumBases ELSE Len(Corpus))}

(* "TOOSHORT" and the empty string. *)
ShortInputs == {<<84, 79, 79, 83, 72, 79, 82, 84>>, <<>>}

(* NUL, tab, space, and the bytes on both sides of the edges of 0-9, A-Z, a-z. *)
EdgeBytes == {0, 9, 32, 47, 48, 57, 58, 64, 65, 90, 91, 96, 97, 122, 123, 127}

(* Two-byte characters: e-acute (C3 A9) and NO-BREAK SPACE (C2 A0). *)
WideChars == {<<195, 169>>, <<194, 160>>}

(* One position at each edge of the three fields. *)
FieldEdges == {1, 4, 5, 18, 19, 20}

(* 'a', space, 'A', '7'. *)
PairBytes == {97, 32, 65, 55}

(* space, line feed, NO-BREAK SPACE, EM SPACE (E2 80 83), and ZERO WIDTH   *)
(* SPACE (E2 80 8B), which is no White_Space character.                    *)
PadChars == {<<32>>, <<10>>, <<194, 160>>, <<226, 128, 131>>, <<226, 128, 139>>}

(* '0', 'A', 'a', space. *)
ExtraBytes == {48, 65, 97, 32}

Replace1(s, i, b) == [k \in 1..Len(s) |-> IF k = i THEN b ELSE s[k]]

RECURSIVE Concat(_)
Concat(ss) == IF ss = <<>> THEN <<>> ELSE Head(ss) \o Concat(Tail(ss))

RECURSIVE SeqsUpTo(_, _)
SeqsUpTo(S, n) ==
    IF n = 0 THEN {<<>>}
    ELSE LET shorter == SeqsUpTo(S, n - 1)
         IN  shorter \cup {Append(q, x) : q \in shorter, x \in S}

ToAsciiLowercase(s) ==
    [i \in 1..Len(s) |-> IF s[i] >= 65 /\ s[i] <= 90 THEN s[i] + 32 ELSE s[i]]

SingleMutations == {Replace1(s, i, b) : s \in Bases, i \in 1..LEI_LEN, b \in EdgeBytes}

DoubleMutations ==
    UNION {{Replace1(Replace1(s, i, b), j, c) : b \in PairBytes, c \in PairBytes} :
           s \in Bases, i \in FieldEdges, j \in FieldEdges}

WideMutations ==
    {SubSeq(s, 1, i - 1) \o w \o SubSeq(s, i + n, Len(s)) :
         s \in Bases, i \in 1..LEI_LEN, w \in WideChars, n \in 1..2}

Prefixes == {SubSeq(s, 1, n) : s \in Bases, n \in 0..LEI_LEN}

Extended == {s \o e : s \in Bases, e \in SeqsUpTo(ExtraBytes, MaxExtra)}

(* The forms loose parsing is about: lowercase, mixed case, a space inside. *)
LooseCores ==
    UNION {{s, ToAsciiLowercase(s),
            SubSeq(s, 1, 10) \o ToAsciiLowercase(SubSeq(s, 11, 20)),
            SubSeq(s, 1, 10) \o <<32>> \o SubSeq(s, 11, 20),
            Replace1(ToAsciiLowercase(s), 20, 32)} : s \in Bases}

Pads == {Concat(p) : p \in SeqsUpTo(PadChars, MaxPad)}

PadCores == UNION {{s, ToAsciiLowercase(s)} : s \in Bases}

Padded == LooseCores \cup {l \o c \o r : l \in Pads, c \in PadCores, r \in Pads}

(* Payloads "3157001000000004dd" (lib.rs:392, 396) for all dd, which run   *)
(* the checksum through every remainder, each with the pairs 00, 01, 96,   *)
(* 97, 98 and 99.                                                          *)
PairPrefix == <<51, 49, 53, 55, 48, 48, 49, 48, 48, 48, 48, 48, 48, 48, 48, 52>>

ReservedPairs == {<<48, 48>>, <<48, 49>>, <<57, 57>>}

PairFamily ==
    {PairPrefix \o <<d1, d2>> \o p :
         d1 \in 48..57, d2 \in 48..57,
         p \in ReservedPairs \cup {<<57, 54>>, <<57, 55>>, <<57, 56>>}}

(* The inputs of tests::parse_bulk_bad, which end in 00 and 01. *)
BadCorpus ==
    {
       (* 31570010000000045200 *)
       <<51, 49, 53, 55, 48, 48, 49, 48, 48, 48, 48, 48, 48, 48, 48, 52, 53, 50, 48, 48>>,
       (* 3157006B6JVZ5DFMSN00 *)
       <<51, 49, 53, 55, 48, 48, 54, 66, 54, 74, 86, 90, 53, 68, 70, 77, 83, 78, 48, 48>>,
       (* 315700BBRQHDWX6SHZ00 *)
       <<51, 49, 53, 55, 48, 48, 66, 66, 82, 81, 72, 68, 87, 88, 54, 83, 72, 90, 48, 48>>,
       (* 315700G5G24XYL1TXH00 *)
       <<51, 49, 53, 55, 48, 48, 71, 53, 71, 50, 52, 88, 89, 76, 49, 84, 88, 72, 48, 48>>,
       (* 31570010000000048401 *)
       <<51, 49, 53, 55, 48, 48, 49, 48, 48, 48, 48, 48, 48, 48, 48, 52, 56, 52, 48, 49>>,
       (* 31570010000000067801 *)
       <<51, 49, 53, 55, 48, 48, 49, 48, 48, 48, 48, 48, 48, 48, 48, 54, 55, 56, 48, 49>>,
       (* 315700WH3YMKHCVYW201 *)
       <<51, 49, 53, 55, 48, 48, 87, 72, 51, 89, 77, 75, 72, 67, 86, 89, 87, 50, 48, 49>>
    }

FullInputs ==
    SingleMutations \cup DoubleMutations \cup WideMutations \cup Prefixes
        \cup Extended \cup Padded \cup PairFamily \cup BadCorpus \cup ShortInputs

(* Payload-sized inputs for build_from_payload. *)
PayloadInputs ==
    {SubSeq(s, 1, PAYLOAD_LEN) :
         s \in {t \in SingleMutations \cup DoubleMutations \cup PairFamily :
                    Len(t) >= PAYLOAD_LEN}}

(* Two-string inputs for build_from_parts: an input cut after i and j bytes. *)
PartsInputs ==
    {<<SubSeq(s, 1, 4), SubSeq(s, 5, 18)>> : s \in SingleMutations \cup PairFamily}
        \cup {<<SubSeq(s, 1, i), SubSeq(s, i + 1, i + n)>> :
                  s \in DoubleMutations, i \in 3..5, n \in 13..15}

Inputs == {<<s>> : s \in FullInputs \cup PayloadInputs} \cup PartsInputs

(***************************************************************************)
(* The state: the argument strings of the caller, the entry point called   *)
(* last with its result, and the view read last from the returned value;   *)
(* and, for a DigitsIterator under iteration, the bytes it was made from,  *)
(* the iterator, the items next() has returned, the number of calls that   *)
(* returned None, and whether a call panicked.                             *)
(***************************************************************************)
VARIABLES args, op, result, view, d_src, d_it, d_out, d_nones, d_panicked

vars == <<args, op, result, view, d_src, d_it, d_out, d_nones, d_panicked>>

apiVars == <<args, op, result, view>>

digitVars == <<d_src, d_it, d_out, d_nones, d_panicked>>

(* No iterator is under iteration. *)
DigitsIdle ==
    /\ d_src = <<>>
    /\ d_it = DigitsNew(<<>>)
    /\ d_out = <<>>
    /\ d_nones = 0
    /\ d_panicked = FALSE

Accessors == {"to_string", "lou_id", "entity_id", "payload", "check_digits"}

NoView == [name |-> "none", out |-> <<>>]

Init ==
    /\ args \in Inputs
    /\ op = "none"
    /\ result = [kind |-> "None"]
    /\ view = NoView
    /\ DigitsIdle

Call(name, r) ==
    /\ op' = name
    /\ result' = r
    /\ view' = NoView
    /\ UNCHANGED args
    /\ UNCHANGED digitVars

CallParse == Len(args) = 1 /\ Call("parse", parse(args[1]))

CallParseLoose == Len(args) = 1 /\ Call("parse_loose", parse_loose(args[1]))

CallBuildFromPayload ==
    Len(args) = 1 /\ Call("build_from_payload", build_from_payload(args[1]))

CallBuildFromParts ==
    Len(args) = 2 /\ Call("build_from_parts", build_from_parts(args[1], args[2]))

CallValidate == Len(args) = 1 /\ Call("validate", validate(args[1]))

View(a) ==
    CASE a = "to_string" -> to_string(result.lei)
      [] a = "lou_id" -> lou_id(result.lei)
      [] a = "entity_id" -> entity_id(result.lei)
      [] a = "payload" -> payload(result.lei)
      [] a = "check_digits" -> check_digits(result.lei)

(* A view is read from a value the caller holds: the Ok of a constructor. *)
Read(a) ==
    /\ result.kind = "Ok"
    /\ view' = [name |-> a, out |-> View(a)]
    /\ UNCHANGED <<args, op, result>>
    /\ UNCHANGED digitVars

ReadToString == Read("to_string")

ReadLouId == Read("lou_id")

ReadEntityId == Read("entity_id")

ReadPayload == Read("payload")

ReadCheckDigits == Read("check_digits")

Next ==
    \/ CallParse
    \/ CallParseLoose
    \/ CallBuildFromPayload
    \/ CallBuildFromParts
    \/ CallValidate
    \/ ReadToString
    \/ ReadLouId
    \/ ReadEntityId
    \/ ReadPayload
    \/ ReadCheckDigits

Spec == Init /\ [][Next]_vars

(***************************************************************************)
(* A DigitsIterator driven call by call, as the checksum engine drives it. *)
(***************************************************************************)
MaxDigitsLen == 3
MaxNone == 2

(* '0', '9', 'A', 'J' (19), 'K' (20), 'Z' (35), and 'a', which is outside  *)
(* the bytes the iterator is made for.                                     *)
DigitsBytes == {48, 57, 65, 74, 75, 90, 97}

(* Short byte strings, and the payloads of the known-valid LEIs. *)
DigitsInputs ==
    SeqsUpTo(DigitsBytes, MaxDigitsLen) \cup {SubSeq(s, 1, PAYLOAD_LEN) : s \in Bases}

InitDigits ==
    /\ args = <<>>
    /\ op = "none"
    /\ result = [kind |-> "None"]
    /\ view = NoView
    /\ d_src \in DigitsInputs
    /\ d_it = DigitsNew(d_src)
    /\ d_out = <<>>
    /\ d_nones = 0
    /\ d_panicked = FALSE

(* One call of next() on the iterator; a panic ends the iteration. *)
CallNext ==
    /\ ~d_panicked
    /\ d_nones < MaxNone
    /\ LET r == DigitsNext(d_it)
       IN  /\ d_it' = r.it
           /\ d_panicked' = r.panic
           /\ d_out' = IF r.panic THEN d_out ELSE d_out \o r.item
           /\ d_nones' = IF ~r.panic /\ r.item = <<>> THEN d_nones + 1 ELSE d_nones
    /\ UNCHANGED d_src
    /\ UNCHANGED apiVars

NextDigits == CallNext

SpecDigits == InitDigits /\ [][NextDigits]_vars


(***************************************************************************)
(* Vocabulary of the properties.                                           *)
(***************************************************************************)
Constructors == {"parse", "parse_loose", "build_from_payload", "build_from_parts"}

(* ASCII decimal digits; ASCII decimal digits and uppercase letters. *)
DecimalDigits == 48..57

UpperAlnums == (48..57) \cup (65..90)

AllIn(q, S) == \A i \in 1..Len(q) : q[i] \in S

(* The value invariant of section 3 of the specification. *)
ValueInvariant(x) ==
    /\ Len(x) = 20
    /\ AllIn(x, UpperAlnums)
    /\ x[19] \in DecimalDigits
    /\ x[20] \in DecimalDigits
    /\ LET c == compute_check_digits(SubSeq(x, 1, 18))
       IN  c.kind = "Ok" /\ c.cd = <<x[19], x[20]>>

(* C1: every LEI returned as Ok by parse, parse_loose, build_from_payload  *)
(* or build_from_parts is 20 bytes, all ASCII digits or uppercase letters, *)
(* with two decimal check digits that equal the pair computed over the     *)
(* first 18 bytes.                                                         *)
C1_OkValueIsValid ==
    (op \in Constructors /\ result.kind = "Ok") => ValueInvariant(result.lei)

C1_Witness ==
    /\ op = "parse_loose"
    /\ result.kind = "Ok"
    /\ args[1] # result.lei

(* C2: when parse(s) succeeds, to_string() of the returned value is s. *)
C2_RoundTrip ==
    (op = "parse" /\ result.kind = "Ok" /\ view.name = "to_string")
        => view.out = args[1]

C2_Witness ==
    /\ op = "parse"
    /\ result.kind = "Ok"
    /\ view.name = "to_string"

(* C3: validate(s) is true exactly when parse(s) is Ok, for every input    *)
(* string s; validate always returns a boolean.                            *)
C3_ValidateAgreesWithParse ==
    /\ op = "parse" =>
           /\ validate(args[1]).kind = "Bool"
           /\ (result.kind = "Ok") <=> (validate(args[1]) = Bool(TRUE))
    /\ op = "validate" =>
           /\ result.kind = "Bool"
           /\ (result = Bool(TRUE)) <=> (parse(args[1]).kind = "Ok")

C3_Witness ==
    /\ op = "validate"
    /\ result = Bool(TRUE)

(* C4: for a 4-byte lou and a 14-byte entity of ASCII digits and uppercase *)
(* letters, build_from_parts succeeds, and parse of lou + entity + the     *)
(* pair computed over lou + entity succeeds with an equal value.           *)
C4_PartsEqualParse ==
    (/\ op = "build_from_parts"
     /\ Len(args[1]) = 4
     /\ Len(args[2]) = 14
     /\ AllIn(args[1], UpperAlnums)
     /\ AllIn(args[2], UpperAlnums))
        => LET p == args[1] \o args[2]
               c == compute_check_digits(p)
           IN  /\ result.kind = "Ok"
               /\ c.kind = "Ok"
               /\ parse(p \o c.cd).kind = "Ok"
               /\ parse(p \o c.cd) = result

C4_Witness ==
    /\ op = "build_from_parts"
    /\ result.kind = "Ok"
    /\ \E i \in 1..14 : args[2][i] \in 65..90

(* C5: every public entry point returns normally for every input: a       *)
(* constructor yields Ok or a typed error, validate yields a boolean; no   *)
(* panic path is reached.                                                  *)
C5_NoPanic ==
    /\ result.kind # "Panic"
    /\ op \in Constructors => result.kind \in {"Ok", "Err"}
    /\ op = "validate" => result.kind = "Bool"

C5_Witness ==
    /\ op = "parse_loose"
    /\ result.kind = "Err"
    /\ \E i \in 1..Len(args[1]) : args[1][i] > 127
    /\ \E i \in 1..Len(args[1]) : args[1][i] \in 97..122

(* What strict parse is to report for s: the first failing check in the    *)
(* order length, LOU ID, Entity ID, Check Digits format, checksum.         *)
C6_Expected(s) ==
    IF Len(s) # 20
    THEN [kind |-> "Err", err |-> "InvalidLength", was |-> Len(s)]
    ELSE IF ~AllIn(SubSeq(s, 1, 4), UpperAlnums)
    THEN [kind |-> "Err", err |-> "InvalidLouId", was |-> SubSeq(s, 1, 4)]
    ELSE IF ~AllIn(SubSeq(s, 5, 18), UpperAlnums)
    THEN [kind |-> "Err", err |-> "InvalidEntityId", was |-> SubSeq(s, 5, 18)]
    ELSE IF ~AllIn(SubSeq(s, 19, 20), DecimalDigits)
    THEN [kind |-> "Err", err |-> "InvalidCheckDigits", was |-> SubSeq(s, 19, 20)]
    ELSE IF SubSeq(s, 19, 20) # compute_check_digits(SubSeq(s, 1, 18)).cd
    THEN [kind |-> "Err", err |-> "IncorrectCheckDigits",
          was |-> SubSeq(s, 19, 20),
          expected |-> compute_check_digits(SubSeq(s, 1, 18)).cd]
    ELSE [kind |-> "Ok", lei |-> s]

(* C6: strict parse reports exactly the first failing check in the order   *)
(* length, LOU ID format, Entity ID format, Check Digits format, checksum, *)
(* with the offending bytes (and the expected pair); otherwise Ok.         *)
C6_FirstFailingCheck ==
    op = "parse" => result = C6_Expected(args[1])

(* An input that fails the LOU ID check and a later check. *)
C6_Witness ==
    /\ op = "parse"
    /\ result.kind = "Err"
    /\ result.err = "InvalidLouId"
    /\ ~AllIn(SubSeq(args[1], 5, 18), UpperAlnums)

(* The UTF-8 encodings of the White_Space characters. *)
C7_WhiteSpace ==
    {<<b>> : b \in (9..13) \cup {32}}
        \cup {<<194, 133>>, <<194, 160>>, <<225, 154, 128>>}
        \cup {<<226, 128, b>> : b \in (128..138) \cup {168, 169, 175}}
        \cup {<<226, 129, 159>>, <<227, 128, 128>>}

C7_StartsWhite(q) ==
    \E w \in C7_WhiteSpace : Len(q) >= Len(w) /\ SubSeq(q, 1, Len(w)) = w

C7_EndsWhite(q) ==
    \E w \in C7_WhiteSpace :
        Len(q) >= Len(w) /\ SubSeq(q, Len(q) - Len(w) + 1, Len(q)) = w

RECURSIVE C7_AllWhite(_)
C7_AllWhite(q) ==
    \/ q = <<>>
    \/ \E w \in C7_WhiteSpace :
           /\ Len(q) >= Len(w)
           /\ SubSeq(q, 1, Len(w)) = w
           /\ C7_AllWhite(SubSeq(q, Len(w) + 1, Len(q)))

(* s with its ASCII letters upper-cased, then without the whitespace       *)
(* around it: the part between the longest leading and the longest         *)
(* trailing run of whitespace characters.                                  *)
C7_Normalized(s) ==
    LET u == [k \in 1..Len(s) |-> IF s[k] \in 97..122 THEN s[k] - 32 ELSE s[k]]
        n == Len(u)
        i == CHOOSE i \in 0..n :
                 C7_AllWhite(SubSeq(u, 1, i)) /\ ~C7_StartsWhite(SubSeq(u, i + 1, n))
        j == CHOOSE j \in i..n :
                 C7_AllWhite(SubSeq(u, j + 1, n)) /\ ~C7_EndsWhite(SubSeq(u, i + 1, j))
    IN  SubSeq(u, i + 1, j)

(* C7: parse_loose(s) returns exactly what parse returns for s with its    *)
(* ASCII letters upper-cased and the whitespace around it removed.         *)
C7_LooseIsStrictOfNormalized ==
    op = "parse_loose" => result = parse(C7_Normalized(args[1]))

(* A lowercase LEI inside whitespace, accepted. *)
C7_Witness ==
    /\ op = "parse_loose"
    /\ result.kind = "Ok"
    /\ Len(args[1]) > 20
    /\ \E i \in 1..Len(args[1]) : args[1][i] \in 97..122


(* The original statement of C8: each of the pairs 00, 01 and 99 ends some *)
(* input that parse accepts and validate finds valid (the inputs include,  *)
(* in PairFamily, payloads for every remainder the checksum can take).     *)
C8_EveryReservedPairParses ==
    op \in {"parse", "validate"} =>
        \A pair \in ReservedPairs :
            \E s \in FullInputs :
                /\ Len(s) = 20
                /\ SubSeq(s, 19, 20) = pair
                /\ parse(s).kind = "Ok"
                /\ validate(s) = Bool(TRUE)

(* C8, amended: the pairs 00 and 01 are not rejected (each ends an input   *)
(* of tests::parse_bulk_bad that parses and validates), and an input with  *)
(* a format-valid payload that carries 00, 01 or 99 parses and validates   *)
(* exactly when the pair equals the pair computed over its payload; the    *)
(* computed pair is never 99, so an input that carries 99 is always        *)
(* rejected with IncorrectCheckDigits.                                     *)
C8_ReservedPairsFollowChecksum ==
    /\ \A pair \in {<<48, 48>>, <<48, 49>>} :
           \E s \in BadCorpus :
               /\ SubSeq(s, 19, 20) = pair
               /\ parse(s).kind = "Ok"
               /\ validate(s) = Bool(TRUE)
    /\ (/\ op \in {"parse", "validate"}
        /\ Len(args[1]) = 20
        /\ AllIn(SubSeq(args[1], 1, 18), UpperAlnums)
        /\ SubSeq(args[1], 19, 20) \in ReservedPairs)
           => LET cd == SubSeq(args[1], 19, 20)
                  c == compute_check_digits(SubSeq(args[1], 1, 18)).cd
              IN  /\ c # <<57, 57>>
                  /\ op = "parse" => ((result.kind = "Ok") <=> (cd = c))
                  /\ op = "validate" => ((result = Bool(TRUE)) <=> (cd = c))
                  /\ (op = "parse" /\ cd = <<57, 57>>) =>
                         result = [kind |-> "Err", err |-> "IncorrectCheckDigits",
                                   was |-> cd, expected |-> c]

C8_Witness ==
    /\ op = "parse"
    /\ result.kind = "Ok"
    /\ SubSeq(args[1], 19, 20) = <<48, 49>>

(* C9: build_from_payload reports InvalidPayloadLength with the byte       *)
(* length unless the input has 18 bytes, else InvalidLouId or              *)
(* InvalidEntityId for a slice that is not uppercase alphanumeric, else a  *)
(* value whose first 18 bytes are the input and whose rendering validate   *)
(* accepts; it never reports InvalidCheckDigits or IncorrectCheckDigits.   *)
C9_PayloadBuildIsConsistent ==
    op = "build_from_payload" =>
        LET p == args[1]
        IN  /\ IF Len(p) # 18
               THEN result = [kind |-> "Err", err |-> "InvalidPayloadLength",
                              was |-> Len(p)]
               ELSE IF ~AllIn(SubSeq(p, 1, 4), UpperAlnums)
               THEN result.kind = "Err" /\ result.err = "InvalidLouId"
               ELSE IF ~AllIn(SubSeq(p, 5, 18), UpperAlnums)
               THEN result.kind = "Err" /\ result.err = "InvalidEntityId"
               ELSE /\ result.kind = "Ok"
                    /\ SubSeq(result.lei, 1, 18) = p
                    /\ validate(to_string(result.lei)) = Bool(TRUE)
            /\ result.kind = "Err" =>
                   result.err \notin {"IncorrectCheckDigits", "InvalidCheckDigits"}

C9_Witness ==
    /\ op = "build_from_payload"
    /\ result.kind = "Ok"

(* What the constructor called last returns for the caller's arguments. *)
C10_Constructed ==
    CASE op = "parse" -> parse(args[1])
      [] op = "parse_loose" -> parse_loose(args[1])
      [] op = "build_from_payload" -> build_from_payload(args[1])
      [] op = "build_from_parts" -> build_from_parts(args[1], args[2])

(* C10: for a valid LEI x, lou_id is bytes 0..4, entity_id bytes 4..18,    *)
(* payload bytes 0..18 and check_digits bytes 18..20, so that lou_id +     *)
(* entity_id + check_digits and payload + check_digits both equal          *)
(* to_string(); reading a view leaves the value as it was constructed.     *)
C10_AccessorPartition ==
    (op \in Constructors /\ result.kind = "Ok") =>
        LET x == result.lei
        IN  /\ view.name = "lou_id" => view.out = SubSeq(x, 1, 4)
            /\ view.name = "entity_id" => view.out = SubSeq(x, 5, 18)
            /\ view.name = "payload" => view.out = SubSeq(x, 1, 18)
            /\ view.name = "check_digits" => view.out = SubSeq(x, 19, 20)
            /\ view.name = "to_string" => view.out = x
            /\ lou_id(x) \o entity_id(x) \o check_digits(x) = to_string(x)
            /\ payload(x) \o check_digits(x) = to_string(x)
            /\ result = C10_Constructed

C10_Witness ==
    /\ op = "parse"
    /\ result.kind = "Ok"
    /\ view.name = "entity_id"


(* The expansion of section 4.1 of the specification: a digit as itself, a *)
(* letter L as the tens digit then the units digit of L - 'A' + 10.        *)
RECURSIVE C11_Expansion(_)
C11_Expansion(q) ==
    IF q = <<>> THEN <<>>
    ELSE (IF Head(q) \in 48..57
          THEN <<Head(q)>>
          ELSE <<48 + ((Head(q) - 55) \div 10), 48 + ((Head(q) - 55) % 10)>>)
             \o C11_Expansion(Tail(q))

C11_Count(q) ==
    Cardinality({i \in 1..Len(q) : q[i] \in 48..57})
        + 2 * Cardinality({i \in 1..Len(q) : q[i] \in 65..90})

(* C11: over bytes 0-9 and A-Z, the items next() has returned are, in      *)
(* input order, each digit as itself and each letter as its tens digit     *)
(* then its units digit; all items are ASCII decimal digits; scratch is    *)
(* occupied only between the tens and the units digit of a letter; no call *)
(* panics; and once a call has returned None, exactly #digits + 2 *        *)
(* #letters items have been returned and no later call returns an item.    *)
C11_DigitExpansion ==
    AllIn(d_src, UpperAlnums) =>
        LET k == Len(d_src) - Len(d_it.bytes)
            done == C11_Expansion(SubSeq(d_src, 1, k))
        IN  /\ ~d_panicked
            /\ k >= 0
            /\ d_it.bytes = SubSeq(d_src, k + 1, Len(d_src))
            /\ AllIn(d_out, DecimalDigits)
            /\ d_it.scratch = <<>> => d_out = done
            /\ d_it.scratch # <<>> =>
                   /\ k >= 1
                   /\ d_src[k] \in 65..90
                   /\ d_out \o d_it.scratch = done
                   /\ d_out[Len(d_out)] = 48 + ((d_src[k] - 55) \div 10)
            /\ d_nones > 0 =>
                   /\ d_it.bytes = <<>>
                   /\ d_it.scratch = <<>>
                   /\ d_out = C11_Expansion(d_src)
                   /\ Len(d_out) = C11_Count(d_src)

(* A string of letters and digits, expanded to its end, with a further     *)
(* call after the first None.                                              *)
C11_Witness ==
    /\ AllIn(d_src, UpperAlnums)
    /\ \E i \in 1..Len(d_src) : d_src[i] \in 65..90
    /\ \E i \in 1..Len(d_src) : d_src[i] \in 48..57
    /\ d_nones >= 2


(* C12: build_from_parts reports the first failing check in the order LOU  *)
(* ID length, LOU ID format, Entity ID length, Entity ID format, with the  *)
(* length or the offending bytes, and is Ok otherwise; an Entity ID length *)
(* error comes only with a 4-byte, format-valid LOU ID, and no other error *)
(* kind is returned.                                                       *)
C12_PartsFirstFailingCheck ==
    op = "build_from_parts" =>
        LET lou == args[1]
            entity == args[2]
        IN  /\ IF Len(lou) # 4
               THEN result = [kind |-> "Err", err |-> "InvalidLouIdLength",
                              was |-> Len(lou)]
               ELSE IF ~AllIn(lou, UpperAlnums)
               THEN result = [kind |-> "Err", err |-> "InvalidLouId", was |-> lou]
               ELSE IF Len(entity) # 14
               THEN result = [kind |-> "Err", err |-> "InvalidEntityIdLength",
                              was |-> Len(entity)]
               ELSE IF ~AllIn(entity, UpperAlnums)
               THEN result = [kind |-> "Err", err |-> "InvalidEntityId",
                              was |-> entity]
               ELSE result.kind = "Ok"
            /\ (result.kind = "Err" /\ result.err = "InvalidEntityIdLength") =>
                   (Len(lou) = 4 /\ AllIn(lou, UpperAlnums))
            /\ result.kind = "Err" =>
                   result.err \in {"InvalidLouIdLength", "InvalidLouId",
                                   "InvalidEntityIdLength", "InvalidEntityId"}
            /\ result.kind \in {"Ok", "Err"}

(* A 4-byte LOU ID of the wrong format with an Entity ID of the wrong      *)
(* length.                                                                 *)
C12_Witness ==
    /\ op = "build_from_parts"
    /\ result.kind = "Err"
    /\ result.err = "InvalidLouId"
    /\ Len(args[2]) # 14

=============================================================================
